---- MODULE Spec2Model ----
(***************************************************************************)
(* A model of the FastAPI reference snippets of this repository:           *)
(*   - backend/fastapi-guide/resources/middleware-examples.py              *)
(*       RequestLoggingMiddleware, RateLimitMiddleware,                    *)
(*       AuthenticationMiddleware, SecurityHeadersMiddleware,              *)
(*       MaintenanceModeMiddleware, validation_exception_handler,          *)
(*       generic_exception_handler, setup_middleware, verify_token         *)
(*   - backend/fastapi-guide/resources/endpoint-examples.py                *)
(*       create_user, batch_create_users                                   *)
(*   - backend/api-validation/resources/pydantic-models.py                 *)
(*       UserRegistration, PasswordChange, PasswordReset                   *)
(*                                                                         *)
(* Strings whose characters the code inspects (URL paths, the              *)
(* Authorization header) are sequences of one-character strings.  Times    *)
(* are whole seconds.                                                      *)
(***************************************************************************)
EXTENDS Integers, Sequences, FiniteSets, TLC

VARIABLES
    requests_per_minute,  \* RateLimitMiddleware.requests_per_minute
    requests,             \* RateLimitMiddleware.requests: client id -> list of times
    clock,                \* what datetime.utcnow() returns, in seconds
    admitted,             \* history: client id -> times of the requests forwarded
    rl_last,              \* history: the request dispatch handled last, and its outcome
    auth_last,            \* the request AuthenticationMiddleware handled last, and its outcome
    user_middleware,      \* app.user_middleware, the outermost middleware first
    maintenance_mode,     \* settings.MAINTENANCE_MODE
    pipe,                 \* the request on its way through the middleware, and its response
    users,                \* the rows of the users table, in the order they were committed
    calls,                \* the create_user invocations, each at one of its awaits
    user_last,            \* the request of /api/users answered last, and its response
    debug,                \* settings.DEBUG
    error_last,           \* the error response the application returned last
    validated,            \* the input a validation model was given last, and the outcome
    log,                  \* the records the logger has emitted, in order
    log_calls,            \* the RequestLoggingMiddleware.dispatch invocations
    dispatches,           \* the RateLimitMiddleware.dispatch invocations in flight
    requests_b,           \* RateLimitMiddleware.requests in a second run of the application
    pair_last             \* the request both runs handled last, and its outcome in each

rateVars == <<requests_per_minute, requests, clock, admitted, rl_last>>

pipeVars == <<user_middleware, maintenance_mode, pipe>>

userVars == <<users, calls, user_last>>

\* the state of the error handlers, the validation models, the logging
\* middleware, the concurrent dispatches and the second run
restVars == <<debug, error_last, validated, log, log_calls, dispatches,
              requests_b, pair_last>>

vars == <<requests_per_minute, requests, clock, admitted, rl_last, auth_last,
          user_middleware, maintenance_mode, pipe, users, calls, user_last,
          debug, error_last, validated, log, log_calls, dispatches,
          requests_b, pair_last>>

----------------------------------------------------------------------------
(* Bounds of the model *)

\* the largest requests_per_minute a RateLimitMiddleware is constructed with
MaxRpm == 2
\* the clock advances in steps of Tick seconds
Tick == 30
\* the clock stops advancing after MaxTime seconds
MaxTime == 90
\* the users table holds at most MaxUsers rows
MaxUsers == 2
\* a batch_create_users request holds at most MaxBatch users
MaxBatch == 2
\* at most MaxCalls create_user invocations are in flight at once
MaxCalls == 2
\* RequestLoggingMiddleware.dispatch is called at most MaxLogged times
MaxLogged == 2
\* at most MaxInFlight RateLimitMiddleware.dispatch invocations are in flight at once
MaxInFlight == 2
\* the two runs of the rate limiter are sent at most MaxSent requests together
MaxSent == 4

----------------------------------------------------------------------------
(* Strings *)

PathHealth == <<"/", "h", "e", "a", "l", "t", "h">>
PathHealthSlash == <<"/", "h", "e", "a", "l", "t", "h", "/">>
PathApiUsers == <<"/", "a", "p", "i", "/", "u", "s", "e", "r", "s">>
PathDocs == <<"/", "d", "o", "c", "s">>
PathRedoc == <<"/", "r", "e", "d", "o", "c">>
PathOpenapi == <<"/", "o", "p", "e", "n", "a", "p", "i", ".", "j", "s", "o", "n">>
PathLogin == <<"/", "a", "u", "t", "h", "/", "l", "o", "g", "i", "n">>
PathRegister == <<"/", "a", "u", "t", "h", "/", "r", "e", "g", "i", "s", "t", "e", "r">>
PathRoot == <<"/">>
PathDoc == <<"/", "d", "o", "c">>
PathHealthz == <<"/", "h", "e", "a", "l", "t", "h", "z">>
PathDocsPrivate == <<"/", "d", "o", "c", "s", "-", "p", "r", "i", "v", "a", "t", "e">>
PathLoginAs == <<"/", "a", "u", "t", "h", "/", "l", "o", "g", "i", "n", "-", "a", "s", "/", "1">>
Bearer == <<"B", "e", "a", "r", "e", "r", " ">>

\* s.startswith(prefix)
StartsWith(s, prefix) ==
    Len(prefix) <= Len(s) /\ SubSeq(s, 1, Len(prefix)) = prefix

\* the part of s before its first " ", or all of s when it has none
UpToSpace(s) ==
    LET spaces == {i \in DOMAIN s : s[i] = " "}
    IN  IF spaces = {} THEN s
        ELSE SubSeq(s, 1, (CHOOSE i \in spaces : \A k \in spaces : i <= k) - 1)

\* s.split(" "): the parts of s between single spaces, empty parts included
RECURSIVE Split(_)
Split(s) ==
    LET head == UpToSpace(s)
    IN  IF Len(head) = Len(s) THEN <<head>>
        ELSE <<head>> \o Split(SubSeq(s, Len(head) + 2, Len(s)))

----------------------------------------------------------------------------
(* RateLimitMiddleware *)

\* timedelta(minutes=1), in seconds
Window == 60

\* request.client is None
NoClient == "None"
Hosts == {"10.0.0.1", "10.0.0.2"}

\* the requests the rate limiter is given: a path, and a client or none
RateRequests == [path : {PathHealth, PathHealthSlash, PathApiUsers},
                 client : Hosts \cup {NoClient}]

\* a faulty variant of ClientId: every request is counted under one identifier
ClientIdShared(request) == "unknown"

\* client_id = request.client.host if request.client else "unknown"
ClientId(request) ==
    IF request.client # NoClient THEN request.client ELSE "unknown"

\* self.requests[client_id] on a defaultdict(list): a missing key reads as []
GetRequests(reqs, c) == IF c \in DOMAIN reqs THEN reqs[c] ELSE <<>>

\* a faulty variant of IsRecent: the entry exactly one minute old is kept
IsRecentInclusive(req_time, now) == req_time >= now - Window

\* req_time > minute_ago, with minute_ago = now - timedelta(minutes=1)
IsRecent(req_time, now) == req_time > now - Window

\* [req_time for req_time in self.requests[client_id] if req_time > minute_ago]
Trim(times, now) == SelectSeq(times, LAMBDA t : IsRecent(t, now))

\* a faulty variant of OverLimit: one request too many is let through
OverLimitOffByOne(n, rpm) == n > rpm

\* len(self.requests[client_id]) >= self.requests_per_minute
OverLimit(n, rpm) == n >= rpm

\* a faulty variant of SkipsRateLimit: the health check is rate limited like any path
SkipsNothing(path) == FALSE

\* request.url.path == "/health"
SkipsRateLimit(path) == path = PathHealth

\* self.requests[client_id] = <value>: the key is created when missing
SetRequests(reqs, c, value) ==
    [k \in DOMAIN reqs \cup {c} |-> IF k = c THEN value ELSE reqs[k]]

\* RateLimitMiddleware.dispatch up to its await of call_next: the mapping it
\* leaves, whether it forwards the request, and the 429 it answers otherwise
RateLimitOutcome(reqs, rpm, request, now) ==
    IF SkipsRateLimit(request.path)
    THEN [requests |-> reqs, forwarded |-> TRUE, status |-> 0]
    ELSE LET c == ClientId(request)
             trimmed == Trim(GetRequests(reqs, c), now)
             cleaned == SetRequests(reqs, c, trimmed)
         IN  IF OverLimit(Len(cleaned[c]), rpm)
             THEN [requests |-> cleaned, forwarded |-> FALSE, status |-> 429]
             ELSE [requests |-> SetRequests(cleaned, c, Append(cleaned[c], now)),
                   forwarded |-> TRUE, status |-> 0]

\* before the first request
NoRateRequest ==
    [path |-> <<>>, client |-> NoClient, now |-> 0, status |-> 0, forwarded |-> FALSE]

RateIdle ==
    /\ requests_per_minute = 0
    /\ requests = [k \in {} |-> <<>>]
    /\ clock = 0
    /\ admitted = [c \in {ClientId(r) : r \in RateRequests} |-> <<>>]
    /\ rl_last = NoRateRequest

\* RateLimitMiddleware.__init__
RateInit ==
    /\ requests_per_minute \in 0..MaxRpm
    /\ requests = [k \in {} |-> <<>>]
    /\ clock = 0
    /\ admitted = [c \in {ClientId(r) : r \in RateRequests} |-> <<>>]
    /\ rl_last = NoRateRequest

\* RateLimitMiddleware.dispatch with call_next the application, which answers 200
RateLimitDispatch(request) ==
    LET out == RateLimitOutcome(requests, requests_per_minute, request, clock)
    IN  /\ requests' = out.requests
        /\ rl_last' = [path |-> request.path, client |-> request.client,
                       now |-> clock, forwarded |-> out.forwarded,
                       status |-> IF out.forwarded THEN 200 ELSE out.status]
        /\ admitted' = IF out.forwarded /\ request.path # PathHealth
                       THEN [admitted EXCEPT ![ClientId(request)] = Append(@, clock)]
                       ELSE admitted
        /\ UNCHANGED <<requests_per_minute, clock, auth_last, pipeVars, userVars, restVars>>

\* time passes between two requests
Advance ==
    /\ clock + Tick <= MaxTime
    /\ clock' = clock + Tick
    /\ UNCHANGED <<requests_per_minute, requests, admitted, rl_last, auth_last, pipeVars, userVars, restVars>>

RateNext ==
    \/ \E request \in RateRequests : RateLimitDispatch(request)
    \/ Advance

----------------------------------------------------------------------------
(* AuthenticationMiddleware and verify_token *)

\* a string that is None: request.headers.get("Authorization"), payload.get("sub")
None == <<"None">>

\* request.state has no user_id
NotSet == -1

\* the response has no such header
Absent == "absent"

DigitValue(c) ==
    CASE c = "0" -> 0 [] c = "1" -> 1 [] c = "2" -> 2 [] c = "3" -> 3 [] c = "4" -> 4
      [] c = "5" -> 5 [] c = "6" -> 6 [] c = "7" -> 7 [] c = "8" -> 8 [] c = "9" -> 9
      [] OTHER -> -1

\* int(user_id) of a string of decimal digits; anything else raises ValueError
RECURSIVE ParseInt(_)
ParseInt(sub) ==
    IF sub = None \/ sub = <<>> \/ \E i \in DOMAIN sub : DigitValue(sub[i]) < 0
    THEN [ok |-> FALSE, value |-> 0]
    ELSE IF Len(sub) = 1 THEN [ok |-> TRUE, value |-> DigitValue(sub[1])]
    ELSE [ok |-> TRUE,
          value |-> 10 * ParseInt(SubSeq(sub, 1, Len(sub) - 1)).value
                    + DigitValue(sub[Len(sub)])]

\* jwt.decode(token, settings.SECRET_KEY, algorithms=["HS256"]) on the tokens
\* of the model: two signed tokens with a subject, one signed token without
\* a subject, one whose subject is no number, one expired; any other string
\* is no valid token
JwtDecode(token) ==
    CASE token = <<"a">> -> [result |-> "payload", sub |-> <<"7">>]
      [] token = <<"b">> -> [result |-> "payload", sub |-> <<"4", "2">>]
      [] token = <<"n">> -> [result |-> "payload", sub |-> None]
      [] token = <<"s">> -> [result |-> "payload", sub |-> <<"x", "y">>]
      [] token = <<"e">> -> [result |-> "ExpiredSignatureError", sub |-> None]
      [] OTHER -> [result |-> "InvalidTokenError", sub |-> None]

\* verify_token: the user id, or the ValueError it raises
VerifyToken(token) ==
    LET decoded == JwtDecode(token)
    IN  IF decoded.result = "ExpiredSignatureError"
        THEN [ok |-> FALSE, user_id |-> NotSet, error |-> "Token has expired"]
        ELSE IF decoded.result = "InvalidTokenError"
        THEN [ok |-> FALSE, user_id |-> NotSet, error |-> "Invalid token"]
        ELSE IF decoded.sub = None
        THEN [ok |-> FALSE, user_id |-> NotSet, error |-> "Invalid token payload"]
        ELSE IF ~ParseInt(decoded.sub).ok
        THEN [ok |-> FALSE, user_id |-> NotSet, error |-> "invalid literal for int()"]
        ELSE [ok |-> TRUE, user_id |-> ParseInt(decoded.sub).value, error |-> ""]

\* public_paths
PublicPaths ==
    {PathHealth, PathDocs, PathRedoc, PathOpenapi, PathLogin, PathRegister}

\* any(request.url.path.startswith(path) for path in public_paths)
IsPublicPath(path) == \E public \in PublicPaths : StartsWith(path, public)

\* a faulty variant of HasBearerScheme: the scheme is not compared, any header
\* of two parts passes
HasAnyScheme(auth_header) == auth_header # None /\ Len(Split(auth_header)) >= 2

\* not (not auth_header or not auth_header.startswith("Bearer "))
HasBearerScheme(auth_header) ==
    auth_header # None /\ auth_header # <<>> /\ StartsWith(auth_header, Bearer)

\* auth_header.split(" ")[1]
TokenOf(auth_header) == Split(auth_header)[2]

Unauthorized(message) ==
    [forwarded |-> FALSE, status |-> 401, error |-> message,
     www_authenticate |-> "Bearer", user_id |-> NotSet]

\* AuthenticationMiddleware.dispatch with call_next the application, which
\* answers 200: whether the request is forwarded, the response, and
\* request.state.user_id
AuthOutcome(path, auth_header) ==
    IF IsPublicPath(path)
    THEN [forwarded |-> TRUE, status |-> 200, error |-> "",
          www_authenticate |-> Absent, user_id |-> NotSet]
    ELSE IF ~HasBearerScheme(auth_header)
    THEN Unauthorized("Authentication required")
    ELSE LET verified == VerifyToken(TokenOf(auth_header))
         IN  IF ~verified.ok
             THEN Unauthorized("Invalid or expired token")
             ELSE [forwarded |-> TRUE, status |-> 200, error |-> "",
                   www_authenticate |-> Absent, user_id |-> verified.user_id]

\* the paths requested of the model
AuthPaths ==
    PublicPaths \cup {PathApiUsers, PathRoot, PathDoc, PathHealthz,
                      PathDocsPrivate, PathLoginAs}

\* the Authorization headers sent
AuthHeaders ==
    {None, <<>>,
     Bearer, Bearer \o <<"a">>, Bearer \o <<"b">>, Bearer \o <<"n">>,
     Bearer \o <<"s">>, Bearer \o <<"e">>, Bearer \o <<"z">>,
     Bearer \o <<" ", "a">>, Bearer \o <<"a", " ", "z">>,
     <<"B", "e", "a", "r", "e", "r">>, <<"B", "e", "a", "r", "e", "r", "a">>,
     <<"b", "e", "a", "r", "e", "r", " ", "a">>,
     <<"B", "a", "s", "i", "c", " ", "a">>, <<"a">>}

\* before the first request
NoAuthRequest ==
    [path |-> <<>>, auth_header |-> None, forwarded |-> FALSE, status |-> 0,
     error |-> "", www_authenticate |-> Absent, user_id |-> NotSet]

AuthIdle == auth_last = NoAuthRequest

AuthDispatch(path, auth_header) ==
    LET out == AuthOutcome(path, auth_header)
    IN  /\ auth_last' = [path |-> path, auth_header |-> auth_header,
                         forwarded |-> out.forwarded, status |-> out.status,
                         error |-> out.error,
                         www_authenticate |-> out.www_authenticate,
                         user_id |-> out.user_id]
        /\ UNCHANGED <<rateVars, pipeVars, userVars, restVars>>

AuthNext == \E path \in AuthPaths, auth_header \in AuthHeaders : AuthDispatch(path, auth_header)

----------------------------------------------------------------------------
(* setup_middleware and the middleware it installs *)

\* app.add_middleware(cls): Starlette inserts the new middleware at the front
\* of app.user_middleware, outside those added before it
AddMiddleware(middleware, cls) == <<cls>> \o middleware

\* the add_middleware calls of setup_middleware, in the order it makes them
SetupCalls ==
    <<"CORSMiddleware", "GZipMiddleware", "MaintenanceModeMiddleware",
      "SecurityHeadersMiddleware", "RateLimitMiddleware", "TimingMiddleware",
      "RequestLoggingMiddleware">>

RECURSIVE AddAll(_, _)
AddAll(middleware, classes) ==
    IF classes = <<>> THEN middleware
    ELSE AddAll(AddMiddleware(middleware, Head(classes)), Tail(classes))

\* app.user_middleware after setup_middleware(app)
SetupMiddleware == AddAll(<<>>, SetupCalls)

\* app.add_middleware(RateLimitMiddleware, requests_per_minute=100)
SetupRpm == 100

\* response.headers[name] = value
SetHeader(headers, name, value) ==
    [k \in DOMAIN headers \cup {name} |-> IF k = name THEN value ELSE headers[k]]

\* the headers SecurityHeadersMiddleware.dispatch sets
SecurityHeaders ==
    [h \in {"X-Content-Type-Options", "X-Frame-Options", "X-XSS-Protection",
            "Strict-Transport-Security", "Referrer-Policy"} |->
        CASE h = "X-Content-Type-Options" -> "nosniff"
          [] h = "X-Frame-Options" -> "DENY"
          [] h = "X-XSS-Protection" -> "1; mode=block"
          [] h = "Strict-Transport-Security" -> "max-age=31536000; includeSubDomains"
          [] h = "Referrer-Policy" -> "strict-origin-when-cross-origin"]

\* SecurityHeadersMiddleware.dispatch after call_next returned
AddSecurityHeaders(headers) ==
    [k \in DOMAIN headers \cup DOMAIN SecurityHeaders |->
        IF k \in DOMAIN SecurityHeaders THEN SecurityHeaders[k] ELSE headers[k]]

\* a faulty variant of InMaintenance: the health check is answered 503 as well
InMaintenanceHealthToo(path, mode) == mode

\* MaintenanceModeMiddleware.dispatch: the request is answered 503
InMaintenance(path, mode) == path # PathHealth /\ mode

\* JSONResponse(status_code=..., content={"error": ...}) made by a middleware
JsonResponse(status, error, origin) ==
    [status |-> status, error |-> error, headers |-> <<>>, origin |-> origin]

NoResponse == [status |-> 0, error |-> "", headers |-> <<>>, origin |-> ""]

\* id(request) of the requests of the model
ObjectIds == {1, 2}

\* the requests the application receives
PipeRequests == [path : {PathHealth, PathApiUsers}, client : {"10.0.0.1"}, id : ObjectIds]

NoPipeRequest == [path |-> <<>>, client |-> NoClient, id |-> 0]

\* no request is being handled. The fields of pipe:
\*   phase: "idle", "request" (on its way in), "response" (on its way out), "sent"
\*   depth: the place in user_middleware of the middleware that acts next
\*   request_id: request.state.request_id
\*   maintenance_seen: settings.MAINTENANCE_MODE when MaintenanceModeMiddleware ran
\*   visited: the middleware whose dispatch ran for the request, in order
PipeQuiet ==
    [phase |-> "idle", depth |-> 0, request |-> NoPipeRequest, request_id |-> <<>>,
     maintenance_seen |-> FALSE, response |-> NoResponse, visited |-> <<>>]

PipeIdle ==
    /\ user_middleware = <<>>
    /\ maintenance_mode = FALSE
    /\ pipe = PipeQuiet

\* the application after setup_middleware(app)
PipeInit ==
    /\ requests_per_minute = SetupRpm
    /\ requests = [k \in {} |-> <<>>]
    /\ clock = 0
    /\ admitted = [c \in {ClientId(r) : r \in RateRequests} |-> <<>>]
    /\ rl_last = NoRateRequest
    /\ user_middleware = SetupMiddleware
    /\ maintenance_mode \in BOOLEAN
    /\ pipe = PipeQuiet

\* the response is returned to the middleware at depth d, or to the client
Return(response, d) ==
    [pipe EXCEPT !.phase = IF d = 0 THEN "sent" ELSE "response",
                 !.depth = d, !.response = response]

\* settings.MAINTENANCE_MODE is switched
SetMaintenance ==
    /\ maintenance_mode' = ~maintenance_mode
    /\ UNCHANGED <<rateVars, auth_last, user_middleware, pipe, userVars, restVars>>

\* the application receives a request
Receive(request) ==
    /\ pipe.phase \in {"idle", "sent"}
    /\ pipe' = [PipeQuiet EXCEPT !.phase = "request", !.depth = 1, !.request = request]
    /\ UNCHANGED <<rateVars, auth_last, user_middleware, maintenance_mode, userVars, restVars>>

\* the dispatch of the middleware at pipe.depth, up to its call_next or to
\* the response it returns itself. CORSMiddleware and GZipMiddleware pass the
\* requests of the model on, and their responses back, as they are
Enter ==
    /\ pipe.phase = "request"
    /\ pipe.depth <= Len(user_middleware)
    /\ LET cls == user_middleware[pipe.depth]
           seen == [pipe EXCEPT !.visited = Append(@, cls)]
           forward == [seen EXCEPT !.depth = @ + 1]
       IN  CASE cls = "RateLimitMiddleware" ->
                  LET out == RateLimitOutcome(requests, requests_per_minute,
                                              pipe.request, clock)
                  IN  /\ requests' = out.requests
                      /\ pipe' = IF out.forwarded THEN forward
                                 ELSE [seen EXCEPT
                                         !.phase = IF pipe.depth = 1 THEN "sent" ELSE "response",
                                         !.depth = @ - 1,
                                         !.response = JsonResponse(out.status,
                                                         "Rate limit exceeded", cls)]
                      /\ UNCHANGED maintenance_mode
             [] cls = "MaintenanceModeMiddleware" ->
                  /\ pipe' = IF InMaintenance(pipe.request.path, maintenance_mode)
                             THEN [seen EXCEPT
                                     !.phase = IF pipe.depth = 1 THEN "sent" ELSE "response",
                                     !.depth = @ - 1,
                                     !.maintenance_seen = maintenance_mode,
                                     !.response = JsonResponse(503,
                                                     "Service under maintenance", cls)]
                             ELSE [forward EXCEPT !.maintenance_seen = maintenance_mode]
                  /\ UNCHANGED <<requests, maintenance_mode>>
             [] cls = "RequestLoggingMiddleware" ->
                  /\ pipe' = [forward EXCEPT !.request_id = <<clock * 1000, pipe.request.id>>]
                  /\ UNCHANGED <<requests, maintenance_mode>>
             [] OTHER ->
                  /\ pipe' = forward
                  /\ UNCHANGED <<requests, maintenance_mode>>
    /\ UNCHANGED <<requests_per_minute, clock, admitted, rl_last, auth_last, user_middleware, userVars, restVars>>

\* the innermost call_next: the route handler answers
Route(status) ==
    /\ pipe.phase = "request"
    /\ pipe.depth = Len(user_middleware) + 1
    /\ pipe' = [pipe EXCEPT !.visited = Append(@, "router"),
                            !.phase = IF pipe.depth = 1 THEN "sent" ELSE "response",
                            !.depth = @ - 1,
                            !.response = [status |-> status, error |-> "",
                                          headers |-> <<>>, origin |-> "router"]]
    /\ UNCHANGED <<rateVars, auth_last, user_middleware, maintenance_mode, userVars, restVars>>

\* the dispatch of the middleware at pipe.depth after its call_next returned
After(cls, response) ==
    CASE cls = "SecurityHeadersMiddleware" ->
            [response EXCEPT !.headers = AddSecurityHeaders(@)]
      [] cls = "TimingMiddleware" ->
            [response EXCEPT !.headers = SetHeader(@, "Server-Timing", "total;dur")]
      [] cls = "RequestLoggingMiddleware" ->
            [response EXCEPT !.headers = SetHeader(@, "X-Request-ID", pipe.request_id)]
      [] OTHER -> response

Leave ==
    /\ pipe.phase = "response"
    /\ pipe' = Return(After(user_middleware[pipe.depth], pipe.response), pipe.depth - 1)
    /\ UNCHANGED <<rateVars, auth_last, user_middleware, maintenance_mode, userVars, restVars>>

PipeNext ==
    \/ SetMaintenance
    \/ \E request \in PipeRequests : Receive(request)
    \/ Enter
    \/ \E status \in {200, 404} : Route(status)
    \/ Leave

----------------------------------------------------------------------------
(* create_user and batch_create_users *)

\* the UserCreate bodies of the model
UserCreates ==
    [email : {"ann@example.com", "bob@example.com"},
     username : {"ann", "bob"},
     password : {"password1"},
     first_name : {"Ann"},
     last_name : {"Lee"}]

\* get_password_hash(password)
PasswordHash(password) == <<"hash", password>>

\* User(email=..., username=..., hashed_password=..., first_name=..., last_name=...)
NewUser(user_data) ==
    [email |-> user_data.email, username |-> user_data.username,
     hashed_password |-> PasswordHash(user_data.password),
     first_name |-> user_data.first_name, last_name |-> user_data.last_name]

\* result.scalar_one_or_none() of select(User).where(User.<field> == value):
\* None, the one row, or MultipleResultsFound raised
ScalarOneOrNone(rows, field, value) ==
    LET found == {i \in DOMAIN rows : rows[i][field] = value}
    IN  CASE found = {} -> "None"
          [] Cardinality(found) = 1 -> "row"
          [] OTHER -> "MultipleResultsFound"

\* len(users_data) > 100
BatchLimit == 100

NoUserData ==
    [email |-> "", username |-> "", password |-> "", first_name |-> "", last_name |-> ""]

\* a create_user invocation that has not been made
NoCall == [pc |-> "none", user_data |-> NoUserData, before |-> 0]

\* before the first response
NoUserResponse ==
    [op |-> "", user_data |-> <<>>, before |-> 0, after |-> 0,
     status |-> 0, detail |-> "", returned |-> <<>>]

UsersInit ==
    /\ users = <<>>
    /\ calls = [c \in 1..MaxCalls |-> NoCall]
    /\ user_last = NoUserResponse

\* create_user answers: the invocation ends. Rows are only ever appended to
\* the table, so the table as it was at the handler's first query (before)
\* and as it is when the handler answers (after) are recorded by their lengths
Answer(c, call, status, detail, rows, returned) ==
    /\ user_last' = [op |-> "create_user", user_data |-> <<call.user_data>>,
                     before |-> call.before, after |-> Len(rows),
                     status |-> status, detail |-> detail, returned |-> returned]
    /\ calls' = [calls EXCEPT ![c] = NoCall]

\* the outcome of one of the two existence checks of create_user: it raises
\* (MultipleResultsFound, or the HTTPException with detail), or the handler
\* goes on to its next await
Checked(c, existing, detail, next) ==
    CASE existing = "MultipleResultsFound" ->
            Answer(c, next, 500, "MultipleResultsFound", users, <<>>)
      [] existing = "row" ->
            Answer(c, next, 409, detail, users, <<>>)
      [] OTHER ->
            /\ calls' = [calls EXCEPT ![c] = next]
            /\ UNCHANGED user_last

\* create_user is called and the database runs its select by email
CreateUserSelectEmail(c, user_data) ==
    /\ calls[c].pc = "none"
    /\ Checked(c, ScalarOneOrNone(users, "email", user_data.email),
               "Email already registered",
               [pc |-> "select_username", user_data |-> user_data, before |-> Len(users)])
    /\ UNCHANGED <<users, rateVars, auth_last, pipeVars, restVars>>

\* create_user goes on and the database runs its select by username
CreateUserSelectUsername(c) ==
    /\ calls[c].pc = "select_username"
    /\ Checked(c, ScalarOneOrNone(users, "username", calls[c].user_data.username),
               "Username already taken", [calls[c] EXCEPT !.pc = "commit"])
    /\ UNCHANGED <<users, rateVars, auth_last, pipeVars, restVars>>

\* db.add(user); await db.commit(); await db.refresh(user); return user
CreateUserCommit(c) ==
    /\ calls[c].pc = "commit"
    /\ Len(users) < MaxUsers
    /\ users' = Append(users, NewUser(calls[c].user_data))
    /\ Answer(c, calls[c], 201, "", users', <<users'[Len(users')]>>)
    /\ UNCHANGED <<rateVars, auth_last, pipeVars, restVars>>

\* batch_create_users, whose one write is its commit; is_admin: the current
\* user has the admin role (get_current_admin)
BatchCreateUsers(users_data, is_admin) ==
    /\ Len(users) + Len(users_data) <= MaxUsers
    /\ LET created_users == [i \in DOMAIN users_data |-> NewUser(users_data[i])]
           refused == IF ~is_admin THEN 403
                      ELSE IF Len(users_data) > BatchLimit THEN 400 ELSE 0
       IN  /\ users' = IF refused # 0 THEN users ELSE users \o created_users
           /\ user_last' = [op |-> "batch_create_users", user_data |-> users_data,
                            before |-> Len(users), after |-> Len(users'),
                            status |-> IF refused # 0 THEN refused ELSE 201,
                            detail |-> CASE refused = 403 -> "Admin access required"
                                         [] refused = 400 -> "Maximum 100 users per batch"
                                         [] OTHER -> "",
                            returned |-> IF refused # 0 THEN <<>> ELSE created_users]
    /\ UNCHANGED <<calls, rateVars, auth_last, pipeVars, restVars>>

\* the users_data of the model: up to MaxBatch users
Batches == UNION {[1..n -> UserCreates] : n \in 0..MaxBatch}

UsersNext ==
    \/ \E c \in 1..MaxCalls, user_data \in UserCreates : CreateUserSelectEmail(c, user_data)
    \/ \E c \in 1..MaxCalls : CreateUserSelectUsername(c)
    \/ \E c \in 1..MaxCalls : CreateUserCommit(c)
    \/ \E users_data \in Batches, is_admin \in BOOLEAN : BatchCreateUsers(users_data, is_admin)

----------------------------------------------------------------------------
(* The error responses of the application *)

\* datetime.isoformat() of a time of day given in seconds: hours, minutes, seconds
IsoFormat(t) == <<"T", t \div 3600, ":", (t \div 60) % 60, ":", t % 60>>

\* ".".join(str(loc) for loc in error["loc"])
RECURSIVE JoinDots(_)
JoinDots(loc) ==
    IF Len(loc) <= 1 THEN loc
    ELSE <<loc[1], ".">> \o JoinDots(Tail(loc))

\* JSONResponse(status_code=429, content={"error": ..., "detail": ...}) of
\* RateLimitMiddleware.dispatch
TooManyRequests(rpm) ==
    [status |-> 429,
     body |-> [error |-> "Rate limit exceeded",
               detail |-> <<"Maximum ", rpm, " requests per minute">>],
     source |-> "RateLimitMiddleware"]

\* JSONResponse(status_code=401, content={"error": message}, headers=...) of
\* AuthenticationMiddleware.dispatch
AuthenticationError(message) ==
    [status |-> 401, body |-> [error |-> message], source |-> "AuthenticationMiddleware"]

\* validation_exception_handler: the 400 for the errors of a RequestValidationError
ValidationExceptionHandler(exc, now) ==
    [status |-> 400,
     body |-> [error |-> "Validation failed",
               details |-> [i \in DOMAIN exc.errors |->
                              [field |-> JoinDots(exc.errors[i].loc),
                               message |-> exc.errors[i].msg,
                               type |-> exc.errors[i].type]],
               timestamp |-> IsoFormat(now)],
     source |-> "validation_exception_handler"]

\* generic_exception_handler: the 500, which shows str(exc) only when
\* settings.DEBUG is set
GenericExceptionHandler(exc, is_debug, now) ==
    [status |-> 500,
     body |-> [error |-> IF is_debug THEN exc.str ELSE "Internal server error",
               timestamp |-> IsoFormat(now)],
     source |-> "generic_exception_handler"]

\* setup_middleware registers handlers for RequestValidationError and for
\* Exception only; an HTTPException is answered by the handler FastAPI
\* installs for it, JSONResponse({"detail": exc.detail}, status_code=exc.status_code)
HttpExceptionHandler(exc) ==
    [status |-> exc.status_code, body |-> [detail |-> exc.detail],
     source |-> "http_exception_handler"]

\* the HTTPExceptions the endpoint handlers and their dependencies raise
HttpExceptions ==
    {[status_code |-> 403, detail |-> "Admin access required"],
     [status_code |-> 409, detail |-> "Email already registered"],
     [status_code |-> 409, detail |-> "Username already taken"],
     [status_code |-> 404, detail |-> "User with ID 1 not found"],
     [status_code |-> 403, detail |-> "You can only update your own profile"],
     [status_code |-> 400, detail |-> "Maximum 100 users per batch"]}

\* the entries of exc.errors() of the model
FieldErrors ==
    {[loc |-> <<"body", "email">>, msg |-> "value is not a valid email address",
      type |-> "value_error.email"],
     [loc |-> <<"body", "password">>, msg |-> "field required",
      type |-> "value_error.missing"],
     [loc |-> <<"query">>, msg |-> "value is not a valid integer",
      type |-> "type_error.integer"]}

\* the RequestValidationErrors of the model: one or two entries
ValidationErrors ==
    {[errors |-> es] : es \in [1..1 -> FieldErrors] \cup [1..2 -> FieldErrors]}

\* the other exceptions that reach the application's handler, with their str(exc)
Exceptions ==
    {[type |-> "MultipleResultsFound",
      str |-> "Multiple rows were found when one or none was required"],
     [type |-> "KeyError", str |-> ""]}

\* before the first error response
NoError == [status |-> 0, body |-> [error |-> ""], source |-> ""]

ErrorsIdle ==
    /\ debug = FALSE
    /\ error_last = NoError

\* the application with its rate limiter, its authentication and its
\* exception handlers
ErrorsInit ==
    /\ requests_per_minute \in 0..MaxRpm
    /\ requests = [k \in {} |-> <<>>]
    /\ clock = 0
    /\ admitted = [c \in {ClientId(r) : r \in RateRequests} |-> <<>>]
    /\ rl_last = NoRateRequest
    /\ debug \in BOOLEAN
    /\ error_last = NoError

\* RateLimitMiddleware.dispatch, with the response kept when it is the 429
RateLimitAnswer(request) ==
    LET out == RateLimitOutcome(requests, requests_per_minute, request, clock)
    IN  /\ requests' = out.requests
        /\ error_last' = IF out.status = 429 THEN TooManyRequests(requests_per_minute)
                         ELSE error_last
        /\ UNCHANGED <<requests_per_minute, clock, admitted, rl_last, auth_last,
                       pipeVars, userVars, debug, validated, log, log_calls, dispatches, requests_b, pair_last>>

\* AuthenticationMiddleware.dispatch, with the response kept when it is a 401
AuthAnswer(path, auth_header) ==
    LET out == AuthOutcome(path, auth_header)
    IN  /\ error_last' = IF out.status = 401 THEN AuthenticationError(out.error)
                         ELSE error_last
        /\ UNCHANGED <<rateVars, auth_last, pipeVars, userVars, debug, validated,
                       log, log_calls, dispatches, requests_b, pair_last>>

\* an endpoint handler raises an HTTPException
HandleHttpException(exc) ==
    /\ error_last' = HttpExceptionHandler(exc)
    /\ UNCHANGED <<rateVars, auth_last, pipeVars, userVars, debug, validated,
                   log, log_calls, dispatches, requests_b, pair_last>>

\* the body of a request does not validate
HandleValidationError(exc) ==
    /\ error_last' = ValidationExceptionHandler(exc, clock)
    /\ UNCHANGED <<rateVars, auth_last, pipeVars, userVars, debug, validated,
                   log, log_calls, dispatches, requests_b, pair_last>>

\* an endpoint handler raises any other exception
HandleException(exc) ==
    /\ error_last' = GenericExceptionHandler(exc, debug, clock)
    /\ UNCHANGED <<rateVars, auth_last, pipeVars, userVars, debug, validated,
                   log, log_calls, dispatches, requests_b, pair_last>>

ErrorsNext ==
    \/ \E request \in [path : {PathHealth, PathApiUsers}, client : {"10.0.0.1"}] :
           RateLimitAnswer(request)
    \/ \E path \in {PathHealth, PathApiUsers},
           auth_header \in {None, Bearer \o <<"a">>, Bearer \o <<"e">>} :
           AuthAnswer(path, auth_header)
    \/ \E exc \in HttpExceptions : HandleHttpException(exc)
    \/ \E exc \in ValidationErrors : HandleValidationError(exc)
    \/ \E exc \in Exceptions : HandleException(exc)
    \/ Advance

----------------------------------------------------------------------------
(* The validation models UserRegistration, PasswordChange and PasswordReset *)

LowerLetters ==
    <<"a", "b", "c", "d", "e", "f", "g", "h", "i", "j", "k", "l", "m",
      "n", "o", "p", "q", "r", "s", "t", "u", "v", "w", "x", "y", "z">>

UpperLetters ==
    <<"A", "B", "C", "D", "E", "F", "G", "H", "I", "J", "K", "L", "M",
      "N", "O", "P", "Q", "R", "S", "T", "U", "V", "W", "X", "Y", "Z">>

Digits == {"0", "1", "2", "3", "4", "5", "6", "7", "8", "9"}

\* the special characters of PASSWORD_PATTERN
Specials == {"@", "$", "!", "%", "*", "?", "&"}

Range(s) == {s[i] : i \in DOMAIN s}

\* v.lower()
Lower(v) ==
    [i \in DOMAIN v |->
        IF v[i] \in Range(UpperLetters)
        THEN LowerLetters[CHOOSE k \in DOMAIN UpperLetters : UpperLetters[k] = v[i]]
        ELSE v[i]]

\* re.match(PASSWORD_PATTERN, password): 8 to 128 characters of the four
\* classes with at least one of each; "$" also matches before a final newline
MatchesPasswordPattern(password) ==
    LET n == Len(password)
        body == IF n > 0 /\ password[n] = "\n" THEN SubSeq(password, 1, n - 1)
                ELSE password
    IN  /\ Len(body) >= 8 /\ Len(body) <= 128
        /\ Range(body) \subseteq
               Range(LowerLetters) \cup Range(UpperLetters) \cup Digits \cup Specials
        /\ Range(body) \cap Range(LowerLetters) # {}
        /\ Range(body) \cap Range(UpperLetters) # {}
        /\ Range(body) \cap Digits # {}
        /\ Range(body) \cap Specials # {}

\* re.match(USERNAME_PATTERN, username)
MatchesUsernamePattern(username) ==
    LET n == Len(username)
        body == IF n > 0 /\ username[n] = "\n" THEN SubSeq(username, 1, n - 1)
                ELSE username
    IN  /\ Len(body) >= 3 /\ Len(body) <= 30
        /\ Range(body) \subseteq
               Range(LowerLetters) \cup Range(UpperLetters) \cup Digits \cup {"_"}

\* a field str = Field(..., min_length=8, max_length=128) with the validator
\* password_strength: the field has a value, of that length, that
\* validate_password lets through
PasswordFieldValid(v) ==
    v # None /\ Len(v) >= 8 /\ Len(v) <= 128 /\ MatchesPasswordPattern(v)

\* a required field str, with min_length when the model gives one
StrFieldValid(v, min_length) == v # None /\ Len(v) >= min_length

\* values.get(name) in a root validator: the value of a field that validated,
\* None for a field that did not
ValuesGet(v, valid) == IF valid THEN v ELSE None

\* a faulty variant of Mismatch: the confirmation is not compared
MismatchIgnored(password, confirm) == FALSE

\* password != confirm in passwords_match
Mismatch(password, confirm) == password # confirm

\* the passwords of the model: two strong ones, one without upper case, digit
\* and special character, one too short; and the field left out
Passwords ==
    {<<"A", "b", "c", "d", "e", "f", "1", "!">>,
     <<"A", "b", "c", "d", "e", "f", "2", "?">>,
     <<"a", "b", "c", "d", "e", "f", "g", "h">>,
     <<"A", "b", "1", "!">>,
     None}

\* what validation made of an input: the ValidationError raised, with the
\* places of its errors, or the instance
Validation(model, input, errors, instance) ==
    [model |-> model, input |-> <<input>>, ok |-> errors = {}, errors |-> errors,
     instance |-> IF errors = {} THEN <<instance>> ELSE <<>>]

\* UserRegistration(**input); email, first_name, last_name and birth_date are
\* given valid values
UserRegistrationValidate(input) ==
    LET username_ok == input.username # None /\ MatchesUsernamePattern(input.username)
        password_ok == PasswordFieldValid(input.password)
        confirm_ok == StrFieldValid(input.confirm_password, 0)
        password == ValuesGet(input.password, password_ok)
        confirm == ValuesGet(input.confirm_password, confirm_ok)
        errors == {f \in {"username", "password", "confirm_password",
                          "accept_terms", "__root__"} :
                      \/ f = "username" /\ ~username_ok
                      \/ f = "password" /\ ~password_ok
                      \/ f = "confirm_password" /\ ~confirm_ok
                      \/ f = "accept_terms" /\ ~input.accept_terms
                      \/ f = "__root__" /\ Mismatch(password, confirm)}
    IN  Validation("UserRegistration", input, errors,
                   [username |-> IF username_ok THEN Lower(input.username) ELSE None,
                    password |-> password, confirm_password |-> confirm,
                    accept_terms |-> input.accept_terms])

\* PasswordChange(**input)
PasswordChangeValidate(input) ==
    LET current_ok == StrFieldValid(input.current_password, 1)
        new_ok == PasswordFieldValid(input.new_password)
        confirm_ok == StrFieldValid(input.confirm_password, 0)
        current == ValuesGet(input.current_password, current_ok)
        new_pass == ValuesGet(input.new_password, new_ok)
        confirm == ValuesGet(input.confirm_password, confirm_ok)
        errors == {f \in {"current_password", "new_password", "confirm_password",
                          "__root__"} :
                      \/ f = "current_password" /\ ~current_ok
                      \/ f = "new_password" /\ ~new_ok
                      \/ f = "confirm_password" /\ ~confirm_ok
                      \/ f = "__root__" /\ (Mismatch(new_pass, confirm) \/ new_pass = current)}
    IN  Validation("PasswordChange", input, errors,
                   [current_password |-> current, new_password |-> new_pass,
                    confirm_password |-> confirm])

\* PasswordReset(**input)
PasswordResetValidate(input) ==
    LET token_ok == StrFieldValid(input.token, 1)
        password_ok == PasswordFieldValid(input.password)
        confirm_ok == StrFieldValid(input.confirm_password, 0)
        password == ValuesGet(input.password, password_ok)
        confirm == ValuesGet(input.confirm_password, confirm_ok)
        errors == {f \in {"token", "password", "confirm_password", "__root__"} :
                      \/ f = "token" /\ ~token_ok
                      \/ f = "password" /\ ~password_ok
                      \/ f = "confirm_password" /\ ~confirm_ok
                      \/ f = "__root__" /\ Mismatch(password, confirm)}
    IN  Validation("PasswordReset", input, errors,
                   [token |-> ValuesGet(input.token, token_ok),
                    password |-> password, confirm_password |-> confirm])

\* the inputs of the model
UserRegistrationInputs ==
    [username : {<<"A", "n", "n", "_", "1">>, <<"a", "!">>},
     password : Passwords, confirm_password : Passwords, accept_terms : BOOLEAN]

PasswordChangeInputs ==
    [current_password : Passwords \cup {<<>>},
     new_password : Passwords, confirm_password : Passwords]

PasswordResetInputs ==
    [token : {<<"t">>, <<>>}, password : Passwords, confirm_password : Passwords]

\* nothing has been validated
ValidationIdle ==
    validated = [model |-> "", input |-> <<>>, ok |-> FALSE, errors |-> {},
                 instance |-> <<>>]

ValidateUserRegistration(input) ==
    /\ validated' = UserRegistrationValidate(input)
    /\ UNCHANGED <<rateVars, auth_last, pipeVars, userVars, debug, error_last, log, log_calls,
                   dispatches, requests_b, pair_last>>

ValidatePasswordChange(input) ==
    /\ validated' = PasswordChangeValidate(input)
    /\ UNCHANGED <<rateVars, auth_last, pipeVars, userVars, debug, error_last, log, log_calls,
                   dispatches, requests_b, pair_last>>

ValidatePasswordReset(input) ==
    /\ validated' = PasswordResetValidate(input)
    /\ UNCHANGED <<rateVars, auth_last, pipeVars, userVars, debug, error_last, log, log_calls,
                   dispatches, requests_b, pair_last>>

ValidationNext ==
    \/ \E input \in UserRegistrationInputs : ValidateUserRegistration(input)
    \/ \E input \in PasswordChangeInputs : ValidatePasswordChange(input)
    \/ \E input \in PasswordResetInputs : ValidatePasswordReset(input)

----------------------------------------------------------------------------
(* RequestLoggingMiddleware *)

\* the requests the logging middleware is given; id is id(request)
LogRequests == [path : {PathApiUsers}, client : {"10.0.0.1", NoClient}, id : ObjectIds]

\* what the await of call_next ends with: a response returned, an exception
\* raised. base is the class "except Exception" tests: asyncio.CancelledError,
\* raised into the await when the request's task is cancelled, derives from
\* BaseException only
Responses == [status_code : {200, 404}, headers : {<<>>}]

Raised ==
    {[type |-> "MultipleResultsFound", base |-> "Exception",
      str |-> "Multiple rows were found when one or none was required"],
     [type |-> "CancelledError", base |-> "BaseException", str |-> ""]}

\* f"{int(time.time() * 1000)}-{id(request)}"
RequestId(now, request) == <<now * 1000, "-", request.id>>

\* request.client.host if request.client else None
ClientHost(request) ==
    IF request.client # NoClient THEN request.client ELSE "None"

\* round(duration * 1000, 2)
DurationMs(start_time, now) == (now - start_time) * 1000

\* a faulty variant of Catches: no exception is caught
CatchesNothing(exc) == FALSE

\* except Exception as e
Catches(exc) == exc.base = "Exception"

\* no invocation. The fields of an invocation:
\*   pc: "none", "call_next" (at its await), "returned", "raised"
\*   call: the number of the invocation, counted from 1
\*   request_id: the local request_id; state_request_id: request.state.request_id
\*   result: the response returned or the exception raised, when it has ended
LoggingIdle ==
    /\ log = <<>>
    /\ log_calls = [i \in ObjectIds |->
                       [pc |-> "none", call |-> 0, request |-> NoPipeRequest,
                        request_id |-> <<>>, state_request_id |-> <<>>,
                        start_time |-> 0, result |-> <<>>]]

\* the number of invocations made so far
Started == Len(SelectSeq(log, LAMBDA e : e.event = "request_started"))

\* dispatch is called with a request and runs to its await of call_next. The
\* requests in flight are distinct objects, so their id() differ
LoggingBegin(request) ==
    /\ Started < MaxLogged
    /\ log_calls[request.id].pc # "call_next"
    /\ LET request_id == RequestId(clock, request)
       IN  /\ log' = Append(log, [event |-> "request_started", level |-> "info",
                                  call |-> Started + 1,
                                  request_id |-> request_id, path |-> request.path,
                                  client_host |-> ClientHost(request)])
           /\ log_calls' = [log_calls EXCEPT ![request.id] =
                              [pc |-> "call_next", call |-> Started + 1,
                               request |-> request, request_id |-> request_id,
                               state_request_id |-> request_id,
                               start_time |-> clock, result |-> <<>>]]
    /\ UNCHANGED <<rateVars, auth_last, pipeVars, userVars, debug, error_last, validated,
                   dispatches, requests_b, pair_last>>

\* call_next returns a response: dispatch logs it, sets the header and returns it
LoggingReturn(i, response) ==
    /\ log_calls[i].pc = "call_next"
    /\ log' = Append(log, [event |-> "request_completed", level |-> "info",
                           call |-> log_calls[i].call,
                           request_id |-> log_calls[i].request_id,
                           path |-> log_calls[i].request.path,
                           status_code |-> response.status_code,
                           duration_ms |-> DurationMs(log_calls[i].start_time, clock)])
    /\ log_calls' = [log_calls EXCEPT
                       ![i].pc = "returned",
                       ![i].result = <<[response EXCEPT !.headers =
                                          SetHeader(@, "X-Request-ID",
                                                    log_calls[i].request_id)]>>]
    /\ UNCHANGED <<rateVars, auth_last, pipeVars, userVars, debug, error_last, validated,
                   dispatches, requests_b, pair_last>>

\* call_next raises: an Exception is logged and raised again, anything else
\* passes through dispatch
LoggingRaise(i, exc) ==
    /\ log_calls[i].pc = "call_next"
    /\ log' = IF Catches(exc)
              THEN Append(log, [event |-> "request_failed", level |-> "error",
                                call |-> log_calls[i].call,
                                request_id |-> log_calls[i].request_id,
                                path |-> log_calls[i].request.path,
                                duration_ms |-> DurationMs(log_calls[i].start_time, clock),
                                error |-> exc.str, error_type |-> exc.type])
              ELSE log
    /\ log_calls' = [log_calls EXCEPT ![i].pc = "raised", ![i].result = <<exc>>]
    /\ UNCHANGED <<rateVars, auth_last, pipeVars, userVars, debug, error_last, validated,
                   dispatches, requests_b, pair_last>>

LoggingNext ==
    \/ \E request \in LogRequests : LoggingBegin(request)
    \/ \E i \in ObjectIds, response \in Responses : LoggingReturn(i, response)
    \/ \E i \in ObjectIds, exc \in Raised : LoggingRaise(i, exc)
    \/ Advance

----------------------------------------------------------------------------
(* RateLimitMiddleware.dispatch invocations on one event loop *)

\* the requests of the model
ConcurrentRequests == [path : {PathHealth, PathApiUsers}, client : {"10.0.0.1"}]

\* no invocation. The fields of an invocation:
\*   pc: "none"; the statement it executes next, "trim", "check", "append";
\*       "call_next" (at its await); "answered" (it has returned)
\*   client_id, now: its local variables; status: of the response it returned
ConcurrentIdle ==
    dispatches = [i \in 1..MaxInFlight |->
                     [pc |-> "none", request |-> [path |-> <<>>, client |-> NoClient],
                      client_id |-> "", now |-> 0, status |-> 0]]

\* a faulty variant of Suspended: the event loop may switch to another
\* invocation after every statement
SuspendedAnywhere(pc) == TRUE

\* the invocation is not running: it has not begun, it waits at its one
\* await, call_next, or it has returned
Suspended(pc) == pc \in {"none", "call_next", "answered"}

\* the event loop runs invocation i when no other invocation is between two
\* of its awaits
Runs(i) == \A j \in DOMAIN dispatches : j # i => Suspended(dispatches[j].pc)

\* dispatch is called: the health check goes straight to call_next, any other
\* request gets its client_id and now
DispatchCall(i, request) ==
    /\ Runs(i)
    /\ dispatches[i].pc \in {"none", "answered"}
    /\ dispatches' = [dispatches EXCEPT ![i] =
                        [pc |-> IF SkipsRateLimit(request.path) THEN "call_next" ELSE "trim",
                         request |-> request, client_id |-> ClientId(request),
                         now |-> clock, status |-> 0]]
    /\ UNCHANGED <<rateVars, auth_last, pipeVars, userVars, debug, error_last, validated,
                   log, log_calls, requests_b, pair_last>>

\* self.requests[client_id] = [... if req_time > minute_ago]
DispatchTrim(i) ==
    /\ Runs(i)
    /\ dispatches[i].pc = "trim"
    /\ requests' = SetRequests(requests, dispatches[i].client_id,
                               Trim(GetRequests(requests, dispatches[i].client_id),
                                    dispatches[i].now))
    /\ dispatches' = [dispatches EXCEPT ![i].pc = "check"]
    /\ UNCHANGED <<requests_per_minute, clock, admitted, rl_last, auth_last, pipeVars,
                   userVars, debug, error_last, validated, log, log_calls, requests_b, pair_last>>

\* if len(self.requests[client_id]) >= self.requests_per_minute: return the 429
DispatchCheck(i) ==
    /\ Runs(i)
    /\ dispatches[i].pc = "check"
    /\ dispatches' =
           IF OverLimit(Len(GetRequests(requests, dispatches[i].client_id)),
                        requests_per_minute)
           THEN [dispatches EXCEPT ![i].pc = "answered", ![i].status = 429]
           ELSE [dispatches EXCEPT ![i].pc = "append"]
    /\ UNCHANGED <<rateVars, auth_last, pipeVars, userVars, debug, error_last, validated,
                   log, log_calls, requests_b, pair_last>>

\* self.requests[client_id].append(now), and on to the await of call_next
DispatchAppend(i) ==
    /\ Runs(i)
    /\ dispatches[i].pc = "append"
    /\ requests' = SetRequests(requests, dispatches[i].client_id,
                               Append(GetRequests(requests, dispatches[i].client_id),
                                      dispatches[i].now))
    /\ admitted' = [admitted EXCEPT ![dispatches[i].client_id] =
                       Append(@, dispatches[i].now)]
    /\ dispatches' = [dispatches EXCEPT ![i].pc = "call_next"]
    /\ UNCHANGED <<requests_per_minute, clock, rl_last, auth_last, pipeVars,
                   userVars, debug, error_last, validated, log, log_calls, requests_b, pair_last>>

\* call_next returns the application's response, and dispatch returns it
DispatchReturn(i) ==
    /\ Runs(i)
    /\ dispatches[i].pc = "call_next"
    /\ dispatches' = [dispatches EXCEPT ![i].pc = "answered", ![i].status = 200]
    /\ UNCHANGED <<rateVars, auth_last, pipeVars, userVars, debug, error_last, validated,
                   log, log_calls, requests_b, pair_last>>

ConcurrentNext ==
    \/ \E i \in 1..MaxInFlight, request \in ConcurrentRequests : DispatchCall(i, request)
    \/ \E i \in 1..MaxInFlight : DispatchTrim(i)
    \/ \E i \in 1..MaxInFlight : DispatchCheck(i)
    \/ \E i \in 1..MaxInFlight : DispatchAppend(i)
    \/ \E i \in 1..MaxInFlight : DispatchReturn(i)
    \/ Advance

----------------------------------------------------------------------------
(* Two runs of one RateLimitMiddleware *)

\* the client whose requests are the same in both runs
ClientA == "10.0.0.1"

\* the requests of client A, and the requests of the others: another host,
\* and requests without client information
RequestsOfA == [path : {PathHealth, PathApiUsers}, client : {ClientA}]

RequestsOfOthers == [path : {PathApiUsers}, client : (Hosts \ {ClientA}) \cup {NoClient}]

\* what a request was answered with
NoOutcome == [forwarded |-> FALSE, status |-> 0]

\* before the first request. The fields of pair_last:
\*   sent: the number of requests made, in both runs together
\*   request, first, second: the request of A made last, and what the first
\*       and the second run answered
\*   other, run, seen, answer: the request of another client made last, the
\*       run it was made in, the number of entries newer than 60 seconds the
\*       run stored under "unknown" when it arrived, and the run's answer
NoPair ==
    [sent |-> 0, request |-> [path |-> <<>>, client |-> NoClient],
     first |-> NoOutcome, second |-> NoOutcome,
     other |-> [path |-> <<>>, client |-> ClientA], run |-> 0, seen |-> 0,
     answer |-> NoOutcome]

PairIdle ==
    /\ requests_b = [k \in {} |-> <<>>]
    /\ pair_last = NoPair

\* the answer of dispatch, with call_next the application, which answers 200
Outcome(out) ==
    [forwarded |-> out.forwarded, status |-> IF out.forwarded THEN 200 ELSE out.status]

\* client A makes a request, at the same time in both runs
RequestOfA(request) ==
    /\ pair_last.sent < MaxSent
    /\ LET first == RateLimitOutcome(requests, requests_per_minute, request, clock)
           second == RateLimitOutcome(requests_b, requests_per_minute, request, clock)
       IN  /\ requests' = first.requests
           /\ requests_b' = second.requests
           /\ pair_last' = [pair_last EXCEPT !.sent = @ + 1, !.request = request,
                                             !.first = Outcome(first),
                                             !.second = Outcome(second)]
    /\ UNCHANGED <<requests_per_minute, clock, admitted, rl_last, auth_last, pipeVars,
                   userVars, debug, error_last, validated, log, log_calls, dispatches>>

\* another client makes a request in one of the two runs only
RequestOfOther(run, request) ==
    /\ pair_last.sent < MaxSent
    /\ LET reqs == IF run = 1 THEN requests ELSE requests_b
           out == RateLimitOutcome(reqs, requests_per_minute, request, clock)
       IN  /\ requests' = IF run = 1 THEN out.requests ELSE requests
           /\ requests_b' = IF run = 2 THEN out.requests ELSE requests_b
           /\ pair_last' = [pair_last EXCEPT
                              !.sent = @ + 1, !.other = request, !.run = run,
                              !.seen = Len(Trim(GetRequests(reqs, "unknown"), clock)),
                              !.answer = Outcome(out)]
    /\ UNCHANGED <<requests_per_minute, clock, admitted, rl_last, auth_last, pipeVars,
                   userVars, debug, error_last, validated, log, log_calls, dispatches>>

PairNext ==
    \/ \E request \in RequestsOfA : RequestOfA(request)
    \/ \E run \in {1, 2}, request \in RequestsOfOthers : RequestOfOther(run, request)
    \/ Advance

----------------------------------------------------------------------------
(* Specifications *)

\* a RateLimitMiddleware on its own, and time
InitRate ==
    RateInit /\ AuthIdle /\ PipeIdle /\ UsersInit
    /\ ErrorsIdle /\ ValidationIdle /\ LoggingIdle
    /\ ConcurrentIdle /\ PairIdle

SpecRate == InitRate /\ [][RateNext]_vars

\* the application that setup_middleware configures, within one minute
InitPipe ==
    PipeInit /\ AuthIdle /\ UsersInit
    /\ ErrorsIdle /\ ValidationIdle /\ LoggingIdle
    /\ ConcurrentIdle /\ PairIdle

SpecPipe == InitPipe /\ [][PipeNext]_vars

\* the handlers of /api/users over one users table
InitUsers ==
    RateIdle /\ AuthIdle /\ PipeIdle /\ UsersInit
    /\ ErrorsIdle /\ ValidationIdle /\ LoggingIdle
    /\ ConcurrentIdle /\ PairIdle

SpecUsers == InitUsers /\ [][UsersNext]_vars

\* an AuthenticationMiddleware on its own
InitAuth ==
    RateIdle /\ AuthIdle /\ PipeIdle /\ UsersInit
    /\ ErrorsIdle /\ ValidationIdle /\ LoggingIdle
    /\ ConcurrentIdle /\ PairIdle

SpecAuth == InitAuth /\ [][AuthNext]_vars

\* the rate limiter, the authentication and the exception handlers of the application
InitErrors ==
    ErrorsInit /\ AuthIdle /\ PipeIdle /\ UsersInit
    /\ ValidationIdle /\ LoggingIdle /\ ConcurrentIdle /\ PairIdle

SpecErrors == InitErrors /\ [][ErrorsNext]_vars

\* the validation models, given one input after another
InitValidation ==
    RateIdle /\ AuthIdle /\ PipeIdle /\ UsersInit
    /\ ErrorsIdle /\ ValidationIdle /\ LoggingIdle /\ ConcurrentIdle /\ PairIdle

SpecValidation == InitValidation /\ [][ValidationNext]_vars

\* a RequestLoggingMiddleware on its own, and time
InitLogging ==
    RateIdle /\ AuthIdle /\ PipeIdle /\ UsersInit
    /\ ErrorsIdle /\ ValidationIdle /\ LoggingIdle /\ ConcurrentIdle /\ PairIdle

SpecLogging == InitLogging /\ [][LoggingNext]_vars

\* a RateLimitMiddleware whose dispatch invocations share one event loop
InitConcurrent ==
    RateInit /\ AuthIdle /\ PipeIdle /\ UsersInit
    /\ ErrorsIdle /\ ValidationIdle /\ LoggingIdle /\ ConcurrentIdle /\ PairIdle

SpecConcurrent == InitConcurrent /\ [][ConcurrentNext]_vars

\* two runs of a RateLimitMiddleware, with one clock
InitPair ==
    RateInit /\ AuthIdle /\ PipeIdle /\ UsersInit
    /\ ErrorsIdle /\ ValidationIdle /\ LoggingIdle /\ ConcurrentIdle /\ PairIdle

SpecPair == InitPair /\ [][PairNext]_vars

----------------------------------------------------------------------------
(* Claims about RateLimitMiddleware *)

\* the number of client c's forwarded requests recorded in the interval (t - 60s, t]
WindowCount(c, t) ==
    Cardinality({i \in DOMAIN admitted[c] :
                    admitted[c][i] > t - Window /\ admitted[c][i] <= t})

\* the instants the clock shows. Every recorded time is one of them, so a
\* window (t - 60s, t] that ends between two of them holds no request that
\* the window ending at the earlier one does not hold
Instants == {t \in 0..clock : t % Tick = 0}

\* C1, first half: for every client and every instant t, at most
\* requests_per_minute of the client's requests that dispatch forwarded
\* (the health check aside) have a recorded time in (t - 60s, t]
C1_SlidingWindow ==
    \A c \in DOMAIN admitted : \A t \in Instants :
        WindowCount(c, t) <= requests_per_minute

\* the number of forwarded requests newer than 60 seconds that the client of
\* the request handled last had when that request arrived
C1_CountBefore ==
    WindowCount(ClientId(rl_last), rl_last.now) - (IF rl_last.forwarded THEN 1 ELSE 0)

\* C1, second half: a request other than the health check is answered 429
\* exactly when its client already has requests_per_minute forwarded requests
\* newer than 60 seconds, and is forwarded otherwise
C1_Answer429 ==
    (rl_last # NoRateRequest /\ rl_last.path # PathHealth) =>
        /\ rl_last.status = 429 <=> C1_CountBefore >= requests_per_minute
        /\ rl_last.forwarded <=> rl_last.status # 429

\* C1: RateLimitMiddleware enforces a sliding-window limit of
\* requests_per_minute forwarded requests per client in any 60 seconds, and
\* answers 429 exactly when the client has used the window up
C1_RateLimit == C1_SlidingWindow /\ C1_Answer429

\* a client used its window up, was answered 429, and, once old requests
\* left the window, was forwarded again
C1_Witness ==
    /\ requests_per_minute > 0
    /\ rl_last.path # PathHealth
    /\ rl_last.forwarded
    /\ rl_last.now >= Window
    /\ Len(admitted[ClientId(rl_last)]) > requests_per_minute
    /\ WindowCount(ClientId(rl_last), clock) = requests_per_minute

\* C2 as stated: after dispatch has handled a request at time now, no
\* timestamp t <= now - 60s remains stored for any client
C2_AllClientsTrimmed ==
    rl_last # NoRateRequest =>
        \A c \in DOMAIN requests : \A i \in DOMAIN requests[c] :
            requests[c][i] > rl_last.now - Window

\* C2, amended: after dispatch has handled a request other than the health
\* check at time now, no timestamp t <= now - 60s remains stored for the
\* client of that request
C2_RequesterTrimmed ==
    (rl_last # NoRateRequest /\ rl_last.path # PathHealth) =>
        /\ ClientId(rl_last) \in DOMAIN requests
        /\ \A i \in DOMAIN requests[ClientId(rl_last)] :
              requests[ClientId(rl_last)][i] > rl_last.now - Window

\* a request was handled whose client had an entry exactly 60 seconds old,
\* and that entry is gone
C2_Witness ==
    /\ rl_last.path # PathHealth
    /\ rl_last.status = 200
    /\ rl_last.now - Window \in {admitted[ClientId(rl_last)][i] :
                                    i \in DOMAIN admitted[ClientId(rl_last)]}
    /\ requests[ClientId(rl_last)] = <<rl_last.now>>

\* a step in which dispatch handles a health check (the one other step of
\* SpecRate advances the clock)
C3_HealthDispatched == clock' = clock /\ rl_last'.path = PathHealth

\* C3: a request whose path is exactly "/health" is always forwarded, is
\* never answered 429, and leaves the client-to-timestamps mapping unchanged
C3_HealthSkipped ==
    [][C3_HealthDispatched =>
          /\ rl_last'.forwarded
          /\ rl_last'.status # 429
          /\ requests' = requests]_vars

\* a health check was forwarded for a client whose window is used up
C3_Witness ==
    /\ rl_last.path = PathHealth
    /\ rl_last.forwarded
    /\ requests_per_minute > 0
    /\ ClientId(rl_last) \in DOMAIN requests
    /\ Len(Trim(requests[ClientId(rl_last)], rl_last.now)) >= requests_per_minute

----------------------------------------------------------------------------
(* Claims about AuthenticationMiddleware *)

\* the Authorization header of the request handled last starts with "Bearer "
\* and verify_token succeeds on its token, the second of its parts
C4_VerifiedBearer ==
    /\ auth_last.auth_header # None
    /\ StartsWith(auth_last.auth_header, Bearer)
    /\ VerifyToken(TokenOf(auth_last.auth_header)).ok

C5_OnlySixPublic ==
    (auth_last.forwarded /\ auth_last.path \notin PublicPaths) => C4_VerifiedBearer

----------------------------------------------------------------------------
(* Claims about the application that setup_middleware configures *)

Visited == {pipe.visited[i] : i \in DOMAIN pipe.visited}

\* C6: every response returned to the client, the 429 of RateLimitMiddleware
\* and the 503 of MaintenanceModeMiddleware included, carries the five
\* security headers with the values SecurityHeadersMiddleware sets
C6_SecurityHeadersOnAll ==
    pipe.phase = "sent" =>
        \A h \in DOMAIN SecurityHeaders :
            /\ h \in DOMAIN pipe.response.headers
            /\ pipe.response.headers[h] = SecurityHeaders[h]

\* C7: CORSMiddleware processes every request before GZipMiddleware,
\* MaintenanceModeMiddleware, SecurityHeadersMiddleware, RateLimitMiddleware,
\* TimingMiddleware and RequestLoggingMiddleware do
C7_CorsFirst ==
    \A i \in DOMAIN pipe.visited :
        pipe.visited[i] \in {"GZipMiddleware", "MaintenanceModeMiddleware",
                             "SecurityHeadersMiddleware", "RateLimitMiddleware",
                             "TimingMiddleware", "RequestLoggingMiddleware"}
            => \E j \in 1..(i - 1) : pipe.visited[j] = "CORSMiddleware"

\* C8: a request that MaintenanceModeMiddleware handles while
\* settings.MAINTENANCE_MODE is true and whose path is not exactly "/health"
\* is answered 503 without call_next, so it reaches no route handler; a
\* "/health" request is forwarded, and so is every request while
\* MAINTENANCE_MODE is false; no request reaches a route handler but through
\* MaintenanceModeMiddleware
C8_Maintenance ==
    /\ "MaintenanceModeMiddleware" \in Visited =>
          IF pipe.request.path # PathHealth /\ pipe.maintenance_seen
          THEN /\ pipe.response.origin = "MaintenanceModeMiddleware"
               /\ pipe.response.status = 503
               /\ Visited \cap {"GZipMiddleware", "CORSMiddleware", "router"} = {}
          ELSE /\ pipe.response.origin # "MaintenanceModeMiddleware"
               /\ pipe.response.status # 503
               /\ \/ "GZipMiddleware" \in Visited
                  \/ /\ pipe.phase = "request"
                     /\ user_middleware[pipe.depth] = "GZipMiddleware"
    /\ "router" \in Visited => "MaintenanceModeMiddleware" \in Visited

\* in maintenance a request to /api/users was answered 503
C8_Witness ==
    /\ pipe.phase = "sent"
    /\ pipe.request.path = PathApiUsers
    /\ pipe.maintenance_seen
    /\ pipe.response.status = 503

----------------------------------------------------------------------------
(* Claims about create_user and batch_create_users *)

\* the users table at the first query of the handler that answered last
C9_Before == SubSeq(users, 1, user_last.before)

\* the users table when that handler answered
C9_After == SubSeq(users, 1, user_last.after)

\* C9: create_user called with an email that an existing user has returns
\* 409 "Email already registered", and with a username that an existing user
\* has 409 "Username already taken" (email checked first), in both cases
\* with the stored users unchanged; otherwise exactly one user with the given
\* email, username and names is added and returned with 201
C9_CreateUser ==
    user_last.op = "create_user" =>
        LET user_data == user_last.user_data[1]
            email_exists == \E i \in DOMAIN C9_Before :
                               C9_Before[i].email = user_data.email
            username_exists == \E i \in DOMAIN C9_Before :
                                  C9_Before[i].username = user_data.username
        IN  IF email_exists
            THEN /\ user_last.status = 409
                 /\ user_last.detail = "Email already registered"
                 /\ C9_After = C9_Before
            ELSE IF username_exists
            THEN /\ user_last.status = 409
                 /\ user_last.detail = "Username already taken"
                 /\ C9_After = C9_Before
            ELSE /\ user_last.status = 201
                 /\ Len(C9_After) = Len(C9_Before) + 1
                 /\ SubSeq(C9_After, 1, Len(C9_Before)) = C9_Before
                 /\ C9_After[Len(C9_After)].email = user_data.email
                 /\ C9_After[Len(C9_After)].username = user_data.username
                 /\ C9_After[Len(C9_After)].first_name = user_data.first_name
                 /\ C9_After[Len(C9_After)].last_name = user_data.last_name
                 /\ user_last.returned = <<C9_After[Len(C9_After)]>>

\* C10: no two stored users have the same email and no two have the same
\* username
C10_UniqueUsers ==
    \A i, j \in DOMAIN users :
        i # j => /\ users[i].email # users[j].email
                 /\ users[i].username # users[j].username

----------------------------------------------------------------------------
(* Claims about the error responses *)

\* C11: every error response the application returns (400, 401, 403, 404,
\* 409, 429, 500) has a JSON body with a top-level "error" field
C11_ErrorEnvelope ==
    error_last.status # 0 => "error" \in DOMAIN error_last.body

----------------------------------------------------------------------------
(* Claims about the validation models *)

\* the input given last leaves a field out, or its confirmation differs, or
\* (PasswordChange) its new password is the current one
C12_InputViolates ==
    LET input == validated.input[1]
    IN  IF validated.model = "PasswordChange"
        THEN \/ input.new_password # input.confirm_password
             \/ input.new_password = input.current_password
        ELSE input.password # input.confirm_password

\* C12: an accepted UserRegistration or PasswordReset has password equal to
\* confirm_password, an accepted PasswordChange has new_password equal to
\* confirm_password and different from current_password; an input that
\* violates one of these is rejected with a validation error and no instance
\* is produced
C12_PasswordsMatch ==
    validated.model # "" =>
        /\ validated.ok <=> validated.instance # <<>>
        /\ ~validated.ok <=> validated.errors # {}
        /\ validated.ok /\ validated.model \in {"UserRegistration", "PasswordReset"} =>
               validated.instance[1].password = validated.instance[1].confirm_password
        /\ validated.ok /\ validated.model = "PasswordChange" =>
               /\ validated.instance[1].new_password = validated.instance[1].confirm_password
               /\ validated.instance[1].new_password # validated.instance[1].current_password
        /\ C12_InputViolates => ~validated.ok /\ validated.instance = <<>>

\* a PasswordChange was accepted, its new password confirmed and not the current one
C12_Witness ==
    /\ validated.model = "PasswordChange"
    /\ validated.ok
    /\ validated.instance[1].new_password = validated.input[1].confirm_password

----------------------------------------------------------------------------
(* Claims about RequestLoggingMiddleware *)

\* the records logged for invocation n, in the order they were emitted
RecordsOf(n) == SelectSeq(log, LAMBDA e : e.call = n)

\* the records of every invocation begin with request_started, go on with at
\* most one of request_completed and request_failed, and carry one request_id
C13_Records ==
    \A n \in 1..Started :
        LET records == RecordsOf(n)
        IN  /\ Len(records) \in {1, 2}
            /\ records[1].event = "request_started"
            /\ Len(records) = 2 =>
                   /\ records[2].event \in {"request_completed", "request_failed"}
                   /\ records[2].request_id = records[1].request_id

\* an invocation whose call_next returned logged request_completed, and the
\* response it returned carries X-Request-ID equal to request.state.request_id
C13_Returned ==
    \A i \in ObjectIds :
        log_calls[i].pc = "returned" =>
            LET records == RecordsOf(log_calls[i].call)
            IN  /\ Len(records) = 2
                /\ records[2].event = "request_completed"
                /\ records[1].request_id = log_calls[i].state_request_id
                /\ log_calls[i].result[1].headers["X-Request-ID"]
                       = log_calls[i].state_request_id

\* C13 as stated: every request is logged with request_started and then
\* exactly one of request_completed (call_next returned) and request_failed
\* (call_next raised), all with one request_id, and every response returned
\* carries X-Request-ID equal to request.state.request_id
C13_EveryRaiseLogged ==
    /\ C13_Records
    /\ C13_Returned
    /\ \A i \in ObjectIds :
           log_calls[i].pc = "raised" =>
               LET records == RecordsOf(log_calls[i].call)
               IN  Len(records) = 2 /\ records[2].event = "request_failed"

\* C13, amended: as above, with request_failed logged when call_next raises
\* an Exception; when it raises a BaseException that is no Exception (the
\* CancelledError of a cancelled request) nothing is logged after
\* request_started. Either is raised again unchanged
C13_ExceptionsLogged ==
    /\ C13_Records
    /\ C13_Returned
    /\ \A i \in ObjectIds :
           log_calls[i].pc = "raised" =>
               LET records == RecordsOf(log_calls[i].call)
                   exc == log_calls[i].result[1]
               IN  /\ exc \in Raised
                   /\ exc.base = "Exception" =>
                          /\ Len(records) = 2
                          /\ records[2].event = "request_failed"
                          /\ records[2].error_type = exc.type
                   /\ exc.base # "Exception" => Len(records) = 1

\* two invocations were in flight together; one has returned its response,
\* the other has raised an Exception and logged request_failed
C13_Witness ==
    /\ log_calls[1].pc = "returned"
    /\ log_calls[2].pc = "raised"
    /\ log_calls[2].result[1].base = "Exception"
    /\ log_calls[2].call < log_calls[1].call
    /\ log[Len(log)].event = "request_failed"

----------------------------------------------------------------------------
(* Claims about concurrent RateLimitMiddleware.dispatch invocations *)

\* the number of times t is in the list times
Occurrences(times, t) == Cardinality({i \in DOMAIN times : times[i] = t})

\* at most one invocation is between its call and its await of call_next
C14_OneRunning ==
    Cardinality({i \in DOMAIN dispatches : ~Suspended(dispatches[i].pc)}) <= 1

\* every time recorded for a forwarded request and newer than 60 seconds is
\* still stored for its client, as often as it was recorded
C14_NothingLost ==
    \A c \in DOMAIN admitted : \A t \in Instants :
        t > clock - Window =>
            Occurrences(GetRequests(requests, c), t) = Occurrences(admitted[c], t)

\* C14: with dispatch invocations interleaved at their awaits of call_next,
\* the trim, the check and the append of one invocation run without another
\* invocation in between, no client has more than requests_per_minute
\* requests forwarded within 60 seconds, and no recorded time newer than 60
\* seconds is lost
C14_ConcurrentLimit ==
    /\ C14_OneRunning
    /\ C1_SlidingWindow
    /\ C14_NothingLost

\* while a forwarded request of a client waits in call_next, a second request
\* of the client, made at the same time, has been answered 429
C14_Witness ==
    /\ requests_per_minute > 0
    /\ dispatches[1].pc = "call_next"
    /\ dispatches[2].pc = "answered"
    /\ dispatches[2].status = 429
    /\ dispatches[2].client_id = dispatches[1].client_id
    /\ dispatches[2].now = dispatches[1].now

----------------------------------------------------------------------------
(* Claims about two runs of RateLimitMiddleware *)

\* in two runs with the same requests of client A, whatever the other
\* clients do in each, every request of A is answered alike, and the two runs
\* store the same times for A
C15_SameForA ==
    /\ pair_last.first = pair_last.second
    /\ GetRequests(requests, ClientA) = GetRequests(requests_b, ClientA)

\* a request without client information is counted under "unknown", with
\* every other such request: it is answered 429 exactly when the run stores
\* requests_per_minute entries newer than 60 seconds under "unknown", and is
\* stored there itself otherwise
C15_UnknownTogether ==
    (pair_last.run # 0 /\ pair_last.other.client = NoClient) =>
        LET stored == GetRequests(IF pair_last.run = 1 THEN requests ELSE requests_b,
                                  "unknown")
        IN  /\ pair_last.answer.status = 429 <=> pair_last.seen >= requests_per_minute
            /\ pair_last.answer.forwarded <=> pair_last.seen < requests_per_minute
            /\ pair_last.answer.forwarded => Len(stored) = pair_last.seen + 1

\* C15: the rate limit of a client does not depend on the requests of clients
\* with another host, and the requests without client information share the
\* identifier "unknown" and one limit
C15_Isolated == C15_SameForA /\ C15_UnknownTogether

\* client A was answered 429 in both runs, although another client has used
\* its own limit up in the second run only
C15_Witness ==
    /\ pair_last.first.status = 429
    /\ pair_last.second.status = 429
    /\ \E c \in DOMAIN requests_b :
           /\ c # ClientA
           /\ Len(requests_b[c]) = requests_per_minute
           /\ c \notin DOMAIN requests
    /\ requests_per_minute > 0

====
